---- MODULE Spec2Model ----
(***************************************************************************)
(* Model of the HTTP API bootstrap of unkod/space (src/apis/base.go):      *)
(* the request pipeline built by InitApi, its catch-all route and its      *)
(* custom HTTPErrorHandler (error classification, the OnBeforeApiError /   *)
(* OnAfterApiError hook chains and the terminal response write).           *)
(***************************************************************************)
EXTENDS Integers, Sequences, FiniteSets, TLC

VARIABLES
    debug,          \* app.IsDebug()
    beforeHooks,    \* number of handlers registered on app.OnBeforeApiError()
    afterHooks,     \* number of handlers registered on app.OnAfterApiError()
    pc,             \* position of the request being served
    req,            \* the request: method and the path the router sees
    route,          \* what the router matched: "route", "catchAll" or "none"
    activity,       \* the requests recorded by the ActivityLogger middleware
    err,            \* the error handed to HTTPErrorHandler, as its unwrap chain
    resp,           \* c.Response()
    apiErr,         \* the handler's local apiErr (<<>> is the nil pointer)
    event,          \* the handler's *core.ApiErrorEvent (<<>> before it is built)
    idx,            \* index of the next hook of the chain being triggered
    hookErr,        \* the handler's local hookErr
    trace,          \* hook invocations and response writes of this pass, in order
    log,            \* entries log.Println emitted while serving this request
    passes,         \* entries of HTTPErrorHandler with a non-nil error, this request
    pipe,           \* one run of the middleware pipeline, stage by stage
    static,         \* one invocation of the StaticDirectoryHandler handler
    conc            \* the error-handling passes of concurrently served requests

\* the variables of the pipeline, static handler and concurrent views
others == <<pipe, static, conc>>

vars == <<debug, beforeHooks, afterHooks, pc, req, route, activity, err, resp,
          apiErr, event, idx, hookErr, trace, log, passes, pipe, static, conc>>

----------------------------------------------------------------------------
(* Bounds of the model *)

\* longest unwrap chain of an error
MaxChain == 2
\* longest request URL path, in tokens
MaxPath == 5
\* longest wildcard of a static request, in segments
MaxSegs == 4
\* most handlers registered on one hook
MaxHooks == 2

----------------------------------------------------------------------------
(* Values *)

StatusNotFound == 404
StatusBadRequest == 400

\* a status net/http accepts as a registered HTTP status class (1xx..5xx)
ValidStatus(c) == c >= 100 /\ c <= 599

\* codes an ApiError or an echo.HTTPError is created with (any int is accepted)
ApiCodes == {403}
HttpCodes == {0, StatusNotFound, 500}

Methods == {"GET", "HEAD"}

\* the nodes of an error's unwrap chain, in the order errors.As / errors.Is visit them
\* (msg is the node's Message: an `any` value with its %v rendering as text;
\*  raw tells whether an ApiError carries raw data)
Msg(t) == [type |-> "any", text |-> t]
ApiNodes == [kind : {"api"}, code : ApiCodes, msg : {Msg("api message")}, raw : BOOLEAN]
HttpNodes == [kind : {"http"}, code : HttpCodes, msg : {Msg("Not Found")}, raw : {FALSE}]
NoRowsNode == [kind |-> "norows", code |-> 0, msg |-> Msg("sql: no rows in result set"), raw |-> FALSE]
OtherNode == [kind |-> "other", code |-> 0, msg |-> Msg("other"), raw |-> FALSE]
Nodes == ApiNodes \cup HttpNodes \cup {NoRowsNode, OtherNode}

\* error values: <<>> is the nil error
NilErr == <<>>
Chains(n) == UNION {[1..k -> Nodes] : k \in 0..n}
Errors == Chains(MaxChain)

\* echo.ErrNotFound
ErrNotFound == <<[kind |-> "http", code |-> StatusNotFound, msg |-> Msg("Not Found"), raw |-> FALSE]>>

\* request paths, as sequences of tokens ("/" is the separator)
ApiPrefix == <<"/", "api", "/">>
Paths == { <<"/", "api", "/", "health">>, <<"/", "api", "/", "health", "/">>,
           <<"/", "api", "/", "missing">>, <<"/", "api", "/", "missing", "/">>,
           <<"/", "apix", "/">>, <<"/", "static">>, <<"/", "static", "/">> }

\* a route a route group registered under the /api mount (bindHealthApi)
RegisteredRoutes == { <<"/", "api", "/", "health">> }

----------------------------------------------------------------------------
(* Error classification: HTTPErrorHandler, lines 62-84 *)

\* index of the first node of kind k in unwrap chain e, 0 when there is none
FirstOfKind(e, k) ==
    IF \E i \in 1..Len(e) : e[i].kind = k
    THEN CHOOSE i \in 1..Len(e) : e[i].kind = k /\ \A j \in 1..(i - 1) : e[j].kind # k
    ELSE 0

\* errors.As(err, &apiErr) / errors.As(err, &v): the chain holds a node of that type
ErrorsAs(e, k) == FirstOfKind(e, k) # 0

\* errors.Is(err, sql.ErrNoRows)
ErrorsIsNoRows(e) == \E i \in 1..Len(e) : e[i].kind = "norows"

\* fmt.Sprintf("%v", v.Message): the text the message value renders to
SprintfV(m) == m.text

\* NewApiError(status, message, data)
NewApiError(status, message, data) ==
    [code |-> status, message |-> message, rawData |-> data]

\* NewNotFoundError(message, data): an empty message takes the default one
NewNotFoundError(message, data) ==
    NewApiError(StatusNotFound,
                IF message = "" THEN "The requested resource wasn't found." ELSE message,
                data)

\* NewBadRequestError(message, data): an empty message takes the default one
NewBadRequestError(message, data) ==
    NewApiError(StatusBadRequest,
                IF message = "" THEN "Something went wrong while processing your request."
                ELSE message,
                data)

\* the *ApiError errors.As stores into apiErr: the first one of the chain
ApiErrorOf(e) ==
    LET n == e[FirstOfKind(e, "api")]
    IN [code |-> n.code, message |-> n.msg.text,
        rawData |-> IF n.raw THEN "data" ELSE "nil"]

\* the echo.HTTPError errors.As stores into v, and its Internal (the error it wraps)
HttpErrorOf(e) == e[FirstOfKind(e, "http")]
InternalOf(e) == SubSeq(e, FirstOfKind(e, "http") + 1, Len(e))

\* the no-rows / generic branch, lines 79-83
ClassifyGenericMutNoRows(e) == NewBadRequestError("", "err")
ClassifyGeneric(e) ==
    IF ErrorsIsNoRows(e)
    THEN NewNotFoundError("", "err")
    ELSE NewBadRequestError("", "err")

\* the ApiError the handler ends up with for a non-nil error, lines 62-84
ClassifyMutHttpFirst(e) ==
    IF ErrorsAs(e, "http")
    THEN NewApiError(HttpErrorOf(e).code, SprintfV(HttpErrorOf(e).msg), "httpError")
    ELSE IF ErrorsAs(e, "api") THEN ApiErrorOf(e)
         ELSE ClassifyGeneric(e)
Classify(e) ==
    IF ErrorsAs(e, "api") THEN ApiErrorOf(e)
    ELSE IF ErrorsAs(e, "http")
         THEN NewApiError(HttpErrorOf(e).code, SprintfV(HttpErrorOf(e).msg), "httpError")
         ELSE ClassifyGeneric(e)

\* log.Println, guarded by app.IsDebug(): what each site appends to the log
LogCommitted(d) == IF d THEN <<[site |-> "committed", value |-> "err"]>> ELSE <<>>
LogRawData(d, a) ==
    IF d /\ a.rawData # "nil" THEN <<[site |-> "rawData", value |-> a.rawData]>> ELSE <<>>
LogInternal(d, e) ==
    IF InternalOf(e) # NilErr /\ d THEN <<[site |-> "internal", value |-> "internal"]>> ELSE <<>>
LogGenericMutAlways(d) == <<[site |-> "generic", value |-> "err"]>>
LogGeneric(d) == IF d THEN <<[site |-> "generic", value |-> "err"]>> ELSE <<>>

\* what classification logs, lines 64-77
ClassifyLog(d, e) ==
    IF ErrorsAs(e, "api") THEN LogRawData(d, ApiErrorOf(e))
    ELSE IF ErrorsAs(e, "http") THEN LogInternal(d, e)
         ELSE LogGeneric(d)

----------------------------------------------------------------------------
(* Request pipeline: InitApi, lines 38-47 and 114-130 *)

HasPrefix(s, p) == Len(s) >= Len(p) /\ SubSeq(s, 1, Len(p)) = p

\* the Skipper of the trailing-slash middleware, lines 40-43
SkipperMutNever(path) == FALSE
Skipper(path) == ~HasPrefix(path, ApiPrefix)

\* middleware.RemoveTrailingSlash: one trailing separator is dropped unless skipped
RemoveTrailingSlash(path) ==
    IF ~Skipper(path) /\ Len(path) > 1 /\ path[Len(path)] = "/"
    THEN SubSeq(path, 1, Len(path) - 1)
    ELSE path

\* URL paths a client may send: token sequences that start with the separator,
\* names never adjacent (each sequence spells one path)
PathTokens == {"/", "api", "apix", "x"}
UrlPaths ==
    {u \in UNION {[1..n -> PathTokens] : n \in 1..MaxPath} :
        /\ u[1] = "/"
        /\ \A i \in 1..(Len(u) - 1) : u[i] = "/" \/ u[i + 1] = "/"}

\* the router's match for the path it sees: a registered route, else the
\* catch-all api.Any("/*") for what lies under the mount, else nothing
Match(path) ==
    IF path \in RegisteredRoutes THEN "route"
    ELSE IF HasPrefix(path, ApiPrefix) /\ Len(path) > Len(ApiPrefix) THEN "catchAll"
         ELSE "none"

\* the catch-all handler, lines 128-130
CatchAllMutNil == NilErr
CatchAllHandler == ErrNotFound

\* ActivityLogger(app): the middleware records the request it wraps
ActivityLogger(r, recorded) == recorded \cup {r}

\* the middleware registered with e.Pre, in order, lines 39-45
PreMiddlewareMutSwapped == <<"LoadAuthContext", "RemoveTrailingSlash">>
PreMiddleware == <<"RemoveTrailingSlash", "LoadAuthContext">>

\* the middleware registered with e.Use, in order, lines 46-47
UseMiddleware == <<"Recover", "Secure">>

\* the middleware of the /api group, line 115
GroupMiddleware == <<"eagerRequestInfoCache">>

\* the middleware of the matched route, line 130
RouteMiddleware == <<"ActivityLogger">>

\* the stages a request runs through, outermost first: the pre-middleware, the
\* router, the global middleware, then what the route found brings
Stages(m) ==
    PreMiddleware \o <<"Router">> \o UseMiddleware \o
        (IF m = "none" THEN <<"NotFoundHandler">>
         ELSE GroupMiddleware \o RouteMiddleware \o <<"Handler">>)

\* the stages whose code may panic
PanicStages == {"RemoveTrailingSlash", "LoadAuthContext", "Secure",
                "eagerRequestInfoCache", "ActivityLogger", "Handler"}

\* middleware.Recover turns a panic of the stages it wraps into an error: it
\* wraps what runs after it has been entered
Recovered(ran) == \E i \in 1..Len(ran) : ran[i] = "Recover"

\* response bodies: what was written, and for JSON the fields it carries
Body(k) == [kind |-> k, fields |-> {}, code |-> 0, message |-> ""]
NoResponse == [committed |-> FALSE, status |-> 0, body |-> Body("none"), by |-> "none"]
\* a response a route handler committed before returning
HandlerResponse == [committed |-> TRUE, status |-> 200, body |-> Body("route"), by |-> "route"]
\* a response a beforeError hook wrote itself
HookResponse == [committed |-> TRUE, status |-> 200, body |-> Body("hook"), by |-> "hook"]

----------------------------------------------------------------------------
(* The terminal action and the hook chains: HTTPErrorHandler, lines 86-111 *)

\* c.NoContent(code)
NoContent(code) ==
    [committed |-> TRUE, status |-> code, body |-> Body("empty"), by |-> "handler"]

\* the JSON encoding of an ApiError: code and message, never its raw data
JsonOf(a) ==
    [kind |-> "json", fields |-> {"code", "message"}, code |-> a.code, message |-> a.message]

\* c.JSON(code, apiErr)
JSON(code, a) ==
    [committed |-> TRUE, status |-> code, body |-> JsonOf(a), by |-> "handler"]

\* the check at the handler's entry, line 55
EntryCommittedMutNever(r) == FALSE
EntryCommitted(r) == r.committed

\* the check that opens the terminal action, lines 92-94
SkipWriteMutNever(r) == FALSE
SkipWrite(r) == r.committed

\* the response the terminal action writes, lines 97-101
WriteResponseMutJson(method, a) == JSON(a.code, a)
WriteResponse(method, a) ==
    IF method = "HEAD" THEN NoContent(a.code) ELSE JSON(a.code, a)

\* the ApiError the terminal action takes status and body from: the handler's
\* local apiErr, not the event's Error field, lines 98 and 101
WrittenErrorMutEvent(a, ev) == ev[1].error
WrittenError(a, ev) == a

\* an ApiError a beforeError hook assigns to event.Error
HookApiError == [code |-> 418, message |-> "hook message", rawData |-> "nil"]

\* whether the afterError chain is triggered, line 104
RunAfterMutAlways(h) == TRUE
RunAfter(h) == h = "nil"

\* where the handler is once an afterError hook has failed, lines 105-107:
\* it returns ("returned" would hand the error to the handler again)
AfterFailedPcMutReenter == "returned"
AfterFailedPc == "done"

\* log.Println(hookErr), lines 106 and 110
LogHookErr(d, h) == IF d THEN <<[site |-> "hookErr", value |-> h]>> ELSE <<>>

\* what a registered hook may do with the event: return nil ("ok"), return an
\* error ("fail"), or, for a beforeError hook, write a response of its own and
\* return nil ("commit")
BeforeResults == {"ok", "commit", "fail"}
AfterResults == {"ok", "fail"}

\* Trigger runs the hooks in registration order and stops at the first one
\* that returns an error, which it returns
Stops(result) == result = "fail"

Call(chain, id, result) == [chain |-> chain, id |-> id, result |-> result]

----------------------------------------------------------------------------
(* StaticDirectoryHandler, lines 142-164.  A path string is the sequence of
   its segments between separators: "" is <<"">>, "/a" is <<"", "a">>. *)

\* the segments a wildcard is made of; "%" is a malformed escape
Segments == {"", ".", "..", "%2E%2E%2F..", "%", "a", "d"}
Wildcards == UNION {[1..n -> Segments] : n \in 1..MaxSegs}

\* the filesystems served: index.html and the file a may exist, d may be a
\* directory, with or without its own index.html
FileSystems == [index : BOOLEAN, a : BOOLEAN, d : {"absent", "empty", "index"}]

\* url.PathUnescape of one segment: an escaped separator splits it
UnescapeSeg(seg) ==
    IF seg = "%2E%2E%2F.." THEN <<"..", "..">> ELSE <<seg>>

RECURSIVE UnescapeSegs(_)
UnescapeSegs(p) ==
    IF p = <<>> THEN <<>> ELSE UnescapeSeg(Head(p)) \o UnescapeSegs(Tail(p))

\* url.PathUnescape, line 147: fails on a malformed escape
PathUnescapeMutLenient(p) == [failed |-> FALSE, path |-> UnescapeSegs(p)]
PathUnescape(p) ==
    IF \E i \in 1..Len(p) : p[i] = "%"
    THEN [failed |-> TRUE, path |-> <<"">>]
    ELSE [failed |-> FALSE, path |-> UnescapeSegs(p)]

\* strings.TrimPrefix(p, "/"), line 154: one leading separator is dropped
TrimPrefix(p) == IF Len(p) >= 2 /\ p[1] = "" THEN Tail(p) ELSE p

\* filepath.Clean, element by element: empty and "." elements go, ".." takes
\* the element before it, and is kept at the front of a path that is not rooted
RECURSIVE CleanElems(_, _, _)
CleanElems(out, rest, rooted) ==
    IF rest = <<>> THEN out
    ELSE LET seg == Head(rest)
             nxt == IF seg \in {"", "."} THEN out
                    ELSE IF seg = ".."
                         THEN IF out # <<>> /\ out[Len(out)] # ".."
                              THEN SubSeq(out, 1, Len(out) - 1)
                              ELSE IF rooted THEN out ELSE Append(out, "..")
                         ELSE Append(out, seg)
         IN CleanElems(nxt, Tail(rest), rooted)

\* filepath.Clean, line 154: the cleaned path in the system's form
Clean(p) ==
    LET rooted == Len(p) >= 2 /\ p[1] = ""
    IN [rooted |-> rooted, elems |-> CleanElems(<<>>, p, rooted)]

\* filepath.ToSlash, line 154: the cleaned path as a slash-separated name
ToSlash(c) ==
    IF c.rooted
    THEN IF c.elems = <<>> THEN <<"", "">> ELSE <<"">> \o c.elems
    ELSE IF c.elems = <<>> THEN <<".">> ELSE c.elems

\* the name the handler opens, line 154
NameOf(p) == ToSlash(Clean(TrimPrefix(p)))

\* fs.ValidPath: the names an fs.FS accepts
ValidPath(name) ==
    name = <<".">> \/ \A i \in 1..Len(name) : name[i] \notin {"", ".", ".."}

\* what the filesystem holds under a valid name
Lookup(name, fsys) ==
    IF name = <<".">> THEN "dir"
    ELSE IF name = <<"index.html">> /\ fsys.index THEN "file"
    ELSE IF name = <<"a">> /\ fsys.a THEN "file"
    ELSE IF name = <<"d">> /\ fsys.d # "absent" THEN "dir"
    ELSE IF name = <<"d", "index.html">> /\ fsys.d = "index" THEN "file"
    ELSE "none"

\* fileSystem.Open inside c.FileFS, line 156: an fs.FS rejects the names that
\* are not valid paths; the mutant resolves them as the operating system
\* would, and a file a exists in every directory above the root
FSOpenMutNoValidate(name, fsys) ==
    IF ValidPath(name) THEN [kind |-> Lookup(name, fsys), outside |-> FALSE]
    ELSE IF name[1] \in {"", ".."} /\ name[Len(name)] = "a"
         THEN [kind |-> "file", outside |-> TRUE]
         ELSE [kind |-> "none", outside |-> FALSE]
FSOpen(name, fsys) ==
    IF ValidPath(name) THEN [kind |-> Lookup(name, fsys), outside |-> FALSE]
    ELSE [kind |-> "none", outside |-> FALSE]

\* the index page of a directory, inside c.FileFS
JoinIndex(name) ==
    IF name = <<".">> THEN <<"index.html">> ELSE Append(name, "index.html")

\* c.FileFS, line 156: a failed Open is echo.ErrNotFound, a directory is
\* served by its index.html
FileFS(name, fsys) ==
    LET o == FSOpen(name, fsys)
        n2 == JoinIndex(name)
        o2 == FSOpen(n2, fsys)
    IN IF o.kind = "none"
       THEN [err |-> ErrNotFound, opened |-> <<name>>, served |-> <<>>]
       ELSE IF o.kind = "file"
       THEN [err |-> NilErr, opened |-> <<name>>,
             served |-> <<[name |-> name, outside |-> o.outside]>>]
       ELSE IF o2.kind = "file"
       THEN [err |-> NilErr, opened |-> <<name, n2>>,
             served |-> <<[name |-> n2, outside |-> o2.outside]>>]
       ELSE [err |-> ErrNotFound, opened |-> <<name, n2>>, served |-> <<>>]

\* errors.Is(fileErr, echo.ErrNotFound), line 158
ErrorsIsNotFound(e) == \E i \in 1..Len(e) : e[i] = ErrNotFound[1]

\* the fallback condition, line 158
FallsBackMutAlways(f, indexFallback) == f.err # NilErr
FallsBack(f, indexFallback) ==
    f.err # NilErr /\ indexFallback /\ ErrorsIsNotFound(f.err)

\* the handler, lines 143-163
StaticDirectoryHandler(p, fsys, indexFallback) ==
    LET u == PathUnescape(p)
        f == FileFS(NameOf(u.path), fsys)
        g == FileFS(<<"index.html">>, fsys)
    IN IF u.failed
       THEN [err |-> <<OtherNode, OtherNode>>, opened |-> <<>>, served |-> <<>>]
       ELSE IF FallsBack(f, indexFallback)
            THEN [err |-> g.err, opened |-> f.opened \o g.opened, served |-> g.served]
            ELSE f

\* a file streamed by http.ServeContent
FileResponse == [committed |-> TRUE, status |-> 200, body |-> Body("file"), by |-> "static"]

----------------------------------------------------------------------------
(* State machine *)

\* the views that are at rest while single requests are served
PipeIdle == [pc |-> "idle", url |-> <<"/">>, path |-> <<"/">>, route |-> "none",
             ran |-> <<>>, panicAt |-> "none", outcome |-> "none", err |-> NilErr]
StaticIdle ==
    [pc |-> "idle", p |-> <<"">>, fsys |-> [index |-> FALSE, a |-> FALSE, d |-> "absent"],
     indexFallback |-> FALSE, err |-> NilErr, opened |-> <<>>, served |-> <<>>,
     resp |-> NoResponse, runs |-> 0]
\* the requests served at the same time
Requests == {"r1", "r2"}

\* what one request's context and handler invocation hold
ConcFresh ==
    [pc |-> "idle", kind |-> "none", method |-> "GET", p |-> <<"">>, indexFallback |-> FALSE,
     err |-> NilErr, resp |-> NoResponse, idx |-> 0, hookErr |-> "nil", trace |-> <<>>]

\* reqs: each request's context; locals: the handler's local apiErr, line 62
ConcIdle == [reqs |-> [r \in Requests |-> ConcFresh], locals |-> [r \in Requests |-> <<>>]]

\* the variable an invocation of the handler keeps its apiErr in: declared
\* inside the handler function, so one per invocation, line 62
ApiErrSlotMutShared(r) == "r1"
ApiErrSlot(r) == r

\* the errors route handlers return to concurrent requests
ConcErrors == {<<[kind |-> "api", code |-> 403, msg |-> Msg("Forbidden"), raw |-> FALSE]>>, <<OtherNode>>}
\* the static requests served concurrently, from one filesystem
ConcWildcards == {<<"", "a">>, <<"", "d">>}
ConcFS == [index |-> TRUE, a |-> TRUE, d |-> "empty"]

Init ==
    /\ debug \in BOOLEAN
    /\ beforeHooks \in 0..MaxHooks
    /\ afterHooks \in 0..MaxHooks
    /\ pc = "idle"
    /\ req = [method |-> "GET", path |-> <<"/">>]
    /\ route = "none"
    /\ activity = {}
    /\ err = NilErr
    /\ resp = NoResponse
    /\ apiErr = <<>>
    /\ event = <<>>
    /\ idx = 0
    /\ hookErr = "nil"
    /\ trace = <<>>
    /\ log = <<>>
    /\ passes = 0
    /\ pipe = PipeIdle
    /\ static = StaticIdle
    /\ conc = ConcIdle

\* the application's debug flag is toggled from outside
ToggleDebug ==
    /\ debug' = ~debug
    /\ UNCHANGED <<beforeHooks, afterHooks, pc, req, route, activity, err, resp,
                   apiErr, event, idx, hookErr, trace, log, passes>>
    /\ UNCHANGED others

\* A request runs through the pipeline up to the point where its handler chain
\* has returned: pre-middleware, routing, group/route middleware, handler.
\* errs are the errors a registered route's handler may return.
ServeFrom(errs) ==
    /\ pc = "idle"
    /\ \E method \in Methods, path \in Paths :
         LET r == [method |-> method, path |-> RemoveTrailingSlash(path)]
             m == Match(r.path)
         IN /\ req' = r
            /\ route' = m
            /\ \/ /\ m = "route"
                  /\ activity' = ActivityLogger(r, activity)
                  /\ err' \in errs
                  /\ resp' \in {NoResponse, HandlerResponse}
               \/ /\ m = "catchAll"
                  /\ activity' = ActivityLogger(r, activity)
                  /\ err' = CatchAllHandler
                  /\ resp' = NoResponse
               \/ /\ m = "none"
                  /\ activity' = activity
                  /\ err' = ErrNotFound
                  /\ resp' = NoResponse
    /\ pc' = "returned"
    /\ UNCHANGED <<debug, beforeHooks, afterHooks, apiErr, event, idx, hookErr,
                   trace, log, passes>>
    /\ UNCHANGED others

Serve == ServeFrom(Errors)

\* HTTPErrorHandler with a nil error, lines 51-53
HandleNil ==
    /\ pc = "returned"
    /\ err = NilErr
    /\ pc' = "done"
    /\ UNCHANGED <<debug, beforeHooks, afterHooks, req, route, activity, err, resp,
                   apiErr, event, idx, hookErr, trace, log, passes>>
    /\ UNCHANGED others

\* HTTPErrorHandler entered with the response already committed, lines 55-60
HandleCommitted ==
    /\ pc = "returned"
    /\ err # NilErr
    /\ EntryCommitted(resp)
    /\ log' = log \o LogCommitted(debug)
    /\ passes' = passes + 1
    /\ pc' = "done"
    /\ UNCHANGED <<debug, beforeHooks, afterHooks, req, route, activity, err, resp,
                   apiErr, event, idx, hookErr, trace>>
    /\ UNCHANGED others

\* HTTPErrorHandler classifies the error and builds the event, lines 62-88
HandleError ==
    /\ pc = "returned"
    /\ err # NilErr
    /\ ~EntryCommitted(resp)
    /\ apiErr' = <<Classify(err)>>
    /\ log' = log \o ClassifyLog(debug, err)
    /\ event' = <<[error |-> Classify(err)]>>
    /\ passes' = passes + 1
    /\ hookErr' = "nil"
    /\ idx' = 1
    /\ pc' = "before"
    /\ UNCHANGED <<debug, beforeHooks, afterHooks, req, route, activity, err, resp,
                   trace>>
    /\ UNCHANGED others

\* the handler's lines 104-111 once Trigger has returned h
AfterTrigger(h, lg) ==
    IF RunAfter(h)
    THEN /\ log' = lg
         /\ idx' = 1
         /\ pc' = IF afterHooks = 0 THEN "done" ELSE "after"
    ELSE /\ log' = lg \o LogHookErr(debug, h)
         /\ idx' = idx
         /\ pc' = "done"

\* OnBeforeApiError().Trigger calls the next registered hook, line 91
BeforeHook ==
    /\ pc = "before"
    /\ idx <= beforeHooks
    /\ \E result \in BeforeResults :
         /\ result = "commit" => ~resp.committed
         /\ trace' = Append(trace, Call("before", idx, result))
         /\ resp' = IF result = "commit" THEN HookResponse ELSE resp
         /\ IF Stops(result)
            THEN /\ hookErr' = "beforeErr"
                 /\ AfterTrigger("beforeErr", log)
            ELSE /\ idx' = idx + 1
                 /\ UNCHANGED <<hookErr, log, pc>>
    /\ UNCHANGED <<debug, beforeHooks, afterHooks, req, route, activity, err,
                   apiErr, event, passes>>
    /\ UNCHANGED others

\* the terminal action of the beforeError chain, lines 91-102
Terminal ==
    /\ pc = "before"
    /\ idx = beforeHooks + 1
    /\ \/ /\ SkipWrite(resp)
          /\ AfterTrigger("nil", log)
          /\ UNCHANGED <<resp, hookErr, trace>>
       \/ /\ ~SkipWrite(resp)
          /\ resp' = WriteResponse(req.method, WrittenError(apiErr[1], event))
          /\ trace' = Append(trace, Call("write", 0, "ok"))
          /\ AfterTrigger("nil", log)
          /\ UNCHANGED hookErr
       \/ /\ ~SkipWrite(resp)
          /\ \/ resp' = resp
             \/ resp' = [WriteResponse(req.method, WrittenError(apiErr[1], event)) EXCEPT !.body = Body("partial")]
          /\ trace' = Append(trace, Call("write", 0, "fail"))
          /\ hookErr' = "writeErr"
          /\ AfterTrigger("writeErr", log)
    /\ UNCHANGED <<debug, beforeHooks, afterHooks, req, route, activity, err,
                   apiErr, event, passes>>
    /\ UNCHANGED others

\* OnAfterApiError().Trigger calls the next registered hook, lines 105-107
AfterHook ==
    /\ pc = "after"
    /\ idx <= afterHooks
    /\ \E result \in AfterResults :
         /\ trace' = Append(trace, Call("after", idx, result))
         /\ IF Stops(result)
            THEN /\ log' = log \o LogHookErr(debug, hookErr)
                 /\ idx' = idx
                 /\ pc' = AfterFailedPc
            ELSE /\ log' = log
                 /\ idx' = idx + 1
                 /\ pc' = IF idx = afterHooks THEN "done" ELSE "after"
    /\ UNCHANGED <<debug, beforeHooks, afterHooks, req, route, activity, err, resp,
                   apiErr, event, hookErr, passes>>
    /\ UNCHANGED others

\* the server turns to the next request, with a fresh context
NextRequest ==
    /\ pc = "done"
    /\ pc' = "idle"
    /\ req' = [method |-> "GET", path |-> <<"/">>]
    /\ route' = "none"
    /\ activity' = {}
    /\ err' = NilErr
    /\ resp' = NoResponse
    /\ apiErr' = <<>>
    /\ event' = <<>>
    /\ idx' = 0
    /\ hookErr' = "nil"
    /\ trace' = <<>>
    /\ log' = <<>>
    /\ passes' = 0
    /\ UNCHANGED <<debug, beforeHooks, afterHooks>>
    /\ UNCHANGED others

\* a beforeError hook assigns another ApiError to event.Error and returns nil
BeforeHookReplace ==
    /\ pc = "before"
    /\ idx <= beforeHooks
    /\ event' = <<[error |-> HookApiError]>>
    /\ trace' = Append(trace, Call("before", idx, "replace"))
    /\ idx' = idx + 1
    /\ UNCHANGED <<debug, beforeHooks, afterHooks, pc, req, route, activity, err, resp,
                   apiErr, hookErr, log, passes>>
    /\ UNCHANGED others

\* requests whose route handler returns nil or a single, unwrapped error
ServeSingle == ServeFrom(Chains(1))

Next ==
    \/ ToggleDebug
    \/ Serve
    \/ HandleNil
    \/ HandleCommitted
    \/ HandleError
    \/ BeforeHook
    \/ Terminal
    \/ AfterHook
    \/ NextRequest

Spec == Init /\ [][Next]_vars

\* no single request is being served
RequestIdle ==
    /\ pc = "idle"
    /\ req = [method |-> "GET", path |-> <<"/">>]
    /\ route = "none"
    /\ activity = {}
    /\ err = NilErr
    /\ resp = NoResponse
    /\ apiErr = <<>>
    /\ event = <<>>
    /\ idx = 0
    /\ hookErr = "nil"
    /\ trace = <<>>
    /\ log = <<>>
    /\ passes = 0

\* no single request is being served and nothing is registered
MainIdle ==
    /\ debug = FALSE
    /\ beforeHooks = 0
    /\ afterHooks = 0
    /\ RequestIdle

main == <<debug, beforeHooks, afterHooks, pc, req, route, activity, err, resp,
          apiErr, event, idx, hookErr, trace, log, passes>>

----------------------------------------------------------------------------
(* The middleware pipeline, stage by stage: InitApi, lines 38-47 and 114-130 *)

InitPipe ==
    /\ MainIdle
    /\ pipe = PipeIdle
    /\ static = StaticIdle
    /\ conc = ConcIdle

\* a request arrives; one of its stages may be going to panic
PipeStart ==
    /\ pipe.pc = "idle"
    /\ \E u \in UrlPaths, pa \in PanicStages \cup {"none"} :
         pipe' = [pc |-> "running", url |-> u, path |-> u, route |-> "none",
                  ran |-> <<>>, panicAt |-> pa, outcome |-> "none", err |-> NilErr]
    /\ UNCHANGED <<main, static, conc>>

\* the next stage runs: it panics, or does its work and calls the next one
PipeStage ==
    /\ pipe.pc = "running"
    /\ LET all == Stages(pipe.route)
           st == all[Len(pipe.ran) + 1]
       IN IF st = pipe.panicAt
          THEN pipe' = [pipe EXCEPT
                           !.pc = "done",
                           !.outcome = IF Recovered(pipe.ran) THEN "error" ELSE "panic",
                           !.err = IF Recovered(pipe.ran) THEN <<OtherNode>> ELSE NilErr]
          ELSE pipe' = [pipe EXCEPT
                           !.ran = Append(pipe.ran, st),
                           !.path = IF st = "RemoveTrailingSlash"
                                    THEN RemoveTrailingSlash(pipe.path) ELSE pipe.path,
                           !.route = IF st = "Router" THEN Match(pipe.path) ELSE pipe.route,
                           !.pc = IF st \in {"Handler", "NotFoundHandler"}
                                  THEN "done" ELSE "running",
                           !.outcome = IF st \in {"Handler", "NotFoundHandler"}
                                       THEN "returned" ELSE "none"]
    /\ UNCHANGED <<main, static, conc>>

\* the server turns to the next request
PipeReset ==
    /\ pipe.pc = "done"
    /\ pipe' = PipeIdle
    /\ UNCHANGED <<main, static, conc>>

NextPipe ==
    \/ PipeStart
    \/ PipeStage
    \/ PipeReset

SpecPipe == InitPipe /\ [][NextPipe]_vars

----------------------------------------------------------------------------
(* Requests to a static route *)

\* a GET request reaches a route bound to StaticDirectoryHandler
StaticStart ==
    /\ static.pc = "idle"
    /\ \E w \in Wildcards, fsys \in FileSystems, fb \in BOOLEAN :
         static' = [StaticIdle EXCEPT !.pc = "routed", !.p = w, !.fsys = fsys,
                                      !.indexFallback = fb]
    /\ UNCHANGED <<main, pipe, conc>>

\* the handler runs, lines 143-163
StaticServe ==
    /\ static.pc = "routed"
    /\ LET r == StaticDirectoryHandler(static.p, static.fsys, static.indexFallback)
       IN static' = [static EXCEPT
                        !.pc = "returned",
                        !.err = r.err,
                        !.opened = r.opened,
                        !.served = r.served,
                        !.resp = IF r.served # <<>> THEN FileResponse ELSE NoResponse,
                        !.runs = static.runs + 1]
    /\ UNCHANGED <<main, pipe, conc>>

\* the error the handler returned goes through the error handler, lines 50-101
\* (no hooks registered)
StaticFinish ==
    /\ static.pc = "returned"
    /\ static' = [static EXCEPT
                     !.pc = "done",
                     !.resp = IF static.err # NilErr /\ ~EntryCommitted(static.resp)
                              THEN WriteResponse("GET", Classify(static.err))
                              ELSE static.resp]
    /\ UNCHANGED <<main, pipe, conc>>

\* the server turns to the next request
StaticReset ==
    /\ static.pc = "done"
    /\ static' = StaticIdle
    /\ UNCHANGED <<main, pipe, conc>>

InitStatic ==
    /\ MainIdle
    /\ pipe = PipeIdle
    /\ static = StaticIdle
    /\ conc = ConcIdle

NextStatic ==
    \/ StaticStart
    \/ StaticServe
    \/ StaticFinish
    \/ StaticReset

SpecStatic == InitStatic /\ [][NextStatic]_vars

----------------------------------------------------------------------------
(* Requests served at the same time: each step is one request's next step *)

\* hooks are registered before serving starts
InitConc ==
    /\ debug = FALSE
    /\ beforeHooks \in 0..MaxHooks
    /\ afterHooks \in 0..MaxHooks
    /\ RequestIdle
    /\ pipe = PipeIdle
    /\ static = StaticIdle
    /\ conc = ConcIdle

\* request r's handler chain returns: a route handler's error, or the static
\* handler's result, lines 143-163
ConcServe(r) ==
    /\ conc.reqs[r].pc = "idle"
    /\ \E method \in Methods :
         \/ \E e \in ConcErrors :
              conc' = [conc EXCEPT !.reqs[r] =
                         [ConcFresh EXCEPT !.pc = "returned", !.kind = "route",
                                           !.method = method, !.err = e]]
         \/ \E w \in ConcWildcards, fb \in BOOLEAN :
              LET out == StaticDirectoryHandler(w, ConcFS, fb)
              IN conc' = [conc EXCEPT !.reqs[r] =
                            [ConcFresh EXCEPT !.pc = "returned", !.kind = "static",
                                              !.method = method, !.p = w,
                                              !.indexFallback = fb, !.err = out.err,
                                              !.resp = IF out.served # <<>>
                                                       THEN FileResponse ELSE NoResponse]]
    /\ UNCHANGED <<main, pipe, static>>

\* lines 51-53 for request r
ConcHandleNil(r) ==
    /\ conc.reqs[r].pc = "returned"
    /\ conc.reqs[r].err = NilErr
    /\ conc' = [conc EXCEPT !.reqs[r].pc = "done"]
    /\ UNCHANGED <<main, pipe, static>>

\* lines 62-88 for request r
ConcHandleError(r) ==
    /\ conc.reqs[r].pc = "returned"
    /\ conc.reqs[r].err # NilErr
    /\ ~EntryCommitted(conc.reqs[r].resp)
    /\ conc' = [conc EXCEPT !.locals[ApiErrSlot(r)] = <<Classify(conc.reqs[r].err)>>,
                            !.reqs[r].idx = 1,
                            !.reqs[r].pc = "before"]
    /\ UNCHANGED <<main, pipe, static>>

\* line 91 for request r: the next beforeError hook
ConcBeforeHook(r) ==
    /\ conc.reqs[r].pc = "before"
    /\ conc.reqs[r].idx <= beforeHooks
    /\ \E result \in BeforeResults :
         /\ result = "commit" => ~conc.reqs[r].resp.committed
         /\ conc' = [conc EXCEPT
                       !.reqs[r].trace = Append(@, Call("before", conc.reqs[r].idx, result)),
                       !.reqs[r].resp = IF result = "commit" THEN HookResponse ELSE @,
                       !.reqs[r].hookErr = IF Stops(result) THEN "beforeErr" ELSE @,
                       !.reqs[r].idx = IF Stops(result) THEN @ ELSE @ + 1,
                       !.reqs[r].pc = IF Stops(result) THEN "done" ELSE @]
    /\ UNCHANGED <<main, pipe, static>>

\* lines 91-104 for request r: the terminal action, its write succeeding
ConcTerminal(r) ==
    /\ conc.reqs[r].pc = "before"
    /\ conc.reqs[r].idx = beforeHooks + 1
    /\ LET q == conc.reqs[r]
           skip == SkipWrite(q.resp)
       IN conc' = [conc EXCEPT
                     !.reqs[r].resp = IF skip THEN @
                                      ELSE WriteResponse(q.method, conc.locals[ApiErrSlot(r)][1]),
                     !.reqs[r].trace = IF skip THEN @ ELSE Append(@, Call("write", 0, "ok")),
                     !.reqs[r].idx = 1,
                     !.reqs[r].pc = IF afterHooks = 0 THEN "done" ELSE "after"]
    /\ UNCHANGED <<main, pipe, static>>

\* lines 105-107 for request r: the next afterError hook
ConcAfterHook(r) ==
    /\ conc.reqs[r].pc = "after"
    /\ conc.reqs[r].idx <= afterHooks
    /\ \E result \in AfterResults :
         conc' = [conc EXCEPT
                    !.reqs[r].trace = Append(@, Call("after", conc.reqs[r].idx, result)),
                    !.reqs[r].idx = IF Stops(result) THEN @ ELSE @ + 1,
                    !.reqs[r].pc = IF Stops(result) \/ conc.reqs[r].idx = afterHooks
                                   THEN "done" ELSE "after"]
    /\ UNCHANGED <<main, pipe, static>>

\* request r is over; its context and the invocation's locals are gone
ConcReset(r) ==
    /\ conc.reqs[r].pc = "done"
    /\ conc' = [conc EXCEPT !.reqs[r] = ConcFresh, !.locals[ApiErrSlot(r)] = <<>>]
    /\ UNCHANGED <<main, pipe, static>>

NextConc ==
    \E r \in Requests :
        \/ ConcServe(r)
        \/ ConcHandleNil(r)
        \/ ConcHandleError(r)
        \/ ConcBeforeHook(r)
        \/ ConcTerminal(r)
        \/ ConcAfterHook(r)
        \/ ConcReset(r)

SpecConc == InitConc /\ [][NextConc]_vars

\* the passes with beforeError hooks that may also replace event.Error
NextEvent ==
    \/ ServeSingle
    \/ HandleNil
    \/ HandleCommitted
    \/ HandleError
    \/ BeforeHook
    \/ BeforeHookReplace
    \/ Terminal
    \/ AfterHook
    \/ NextRequest

SpecEvent == Init /\ [][NextEvent]_vars

----------------------------------------------------------------------------
(* Vocabulary of the properties *)

\* the handler classified the error of this request (it was entered with a
\* non-nil error and a response no route handler had committed)
Classified == passes > 0 /\ resp.by # "route"

\* the entries of the trace that are calls of hook id of a chain
Calls(chain, id) == {k \in DOMAIN trace : trace[k].chain = chain /\ trace[k].id = id}
ChainCalls(chain) == {k \in DOMAIN trace : trace[k].chain = chain}
Failed(chain) == \E k \in ChainCalls(chain) : trace[k].result = "fail"
WriteCount(t) == Cardinality({k \in DOMAIN t : t[k].chain = "write"})

\* the step is a hook invocation that returns an error
HookFails ==
    /\ Len(trace') = Len(trace) + 1
    /\ trace'[Len(trace')].chain \in {"before", "after"}
    /\ trace'[Len(trace')].result = "fail"

----------------------------------------------------------------------------
(* Error classification *)

\* C1: every classified error yields exactly one non-null ApiError whose code
\* is a valid HTTP status integer.
C1_ClassifiedCodeValid ==
    Classified => (Len(apiErr) = 1 /\ ValidStatus(apiErr[1].code))

\* C2 as stated: a chain containing sql.ErrNoRows is classified 404, and an
\* error that is none of ApiError, HTTP error, no-rows is classified 400.
C2_NoRowsAlways404 ==
    Classified =>
        /\ ErrorsIsNoRows(err) => apiErr[1].code = StatusNotFound
        /\ (~ErrorsAs(err, "api") /\ ~ErrorsAs(err, "http") /\ ~ErrorsIsNoRows(err))
               => apiErr[1].code = StatusBadRequest

\* C2 amended: a chain containing sql.ErrNoRows and carrying neither an ApiError
\* nor a framework HTTP error is classified 404; an error that is none of the
\* three is classified 400.
C2_UnclassifiedNoRows404Else400 ==
    Classified =>
        /\ (~ErrorsAs(err, "api") /\ ~ErrorsAs(err, "http") /\ ErrorsIsNoRows(err))
               => apiErr[1].code = StatusNotFound
        /\ (~ErrorsAs(err, "api") /\ ~ErrorsAs(err, "http") /\ ~ErrorsIsNoRows(err))
               => apiErr[1].code = StatusBadRequest

C2_Witness ==
    /\ Classified
    /\ err = <<OtherNode, NoRowsNode>>
    /\ apiErr[1].code = StatusNotFound

----------------------------------------------------------------------------
(* The handler's pass *)

\* C3: entered with a non-nil error and a committed response, the handler
\* returns at once: the response is left as it is, no event is built, no hook
\* is invoked and nothing is written.
C3_CommittedAtEntryNoEffect ==
    [][(pc = "returned" /\ err # NilErr /\ resp.committed) =>
           /\ resp' = resp
           /\ event' = <<>>
           /\ apiErr' = <<>>
           /\ trace' = <<>>
           /\ pc' \in {"returned", "done"}]_vars

C3_Witness ==
    /\ pc = "done"
    /\ passes = 1
    /\ resp = HandlerResponse
    /\ beforeHooks > 0
    /\ afterHooks > 0
    /\ trace = <<>>

\* C4: the terminal action writes only to a response that is not committed at
\* that moment, and at most once per pass.
C4_WriteOnlyUncommittedOnce ==
    [][(WriteCount(trace') > WriteCount(trace) \/ (resp' # resp /\ resp'.by = "handler")) =>
           /\ ~resp.committed
           /\ WriteCount(trace) = 0
           /\ WriteCount(trace') = 1]_vars

C4_Witness ==
    /\ pc = "done"
    /\ hookErr = "nil"
    /\ \E k \in ChainCalls("before") : trace[k].result = "commit"
    /\ resp = HookResponse
    /\ WriteCount(trace) = 0

\* C5: a response the terminal action wrote has the classified ApiError's code
\* as status, an empty body for HEAD, and otherwise the JSON object with
\* exactly code and message.
C5_WrittenResponseShape ==
    (resp.by = "handler" /\ resp.body.kind # "partial") =>
        /\ resp.status = apiErr[1].code
        /\ IF req.method = "HEAD"
           THEN resp.body = Body("empty")
           ELSE /\ resp.body.kind = "json"
                /\ resp.body.fields = {"code", "message"}
                /\ resp.body.code = apiErr[1].code
                /\ resp.body.message = apiErr[1].message

C5_Witness ==
    /\ resp.by = "handler"
    /\ req.method = "HEAD"
    /\ resp.body = Body("empty")
    /\ resp.status = 403

\* C6 as stated: in a pass with an uncommitted response every beforeError hook
\* is invoked exactly once and before the write, every afterError hook exactly
\* once and only after a successful write, and none after a failure.
C6_EveryHookExactlyOnce ==
    (pc = "done" /\ Classified) =>
        /\ \A i \in 1..beforeHooks :
              /\ Cardinality(Calls("before", i)) = 1
              /\ \A k \in Calls("before", i), w \in ChainCalls("write") : k < w
        /\ \A j \in 1..afterHooks :
              /\ ~(Failed("before") \/ Failed("write")) => Cardinality(Calls("after", j)) = 1
              /\ \A k \in Calls("after", j) :
                    \E w \in ChainCalls("write") : w < k /\ trace[w].result = "ok"
        /\ (Failed("before") \/ Failed("write")) => ChainCalls("after") = {}

\* C6 amended: no hook is invoked twice; beforeError hooks run in registration
\* order, before any write, each exactly once unless an earlier one failed;
\* afterError hooks run only once the beforeError chain and the terminal action
\* have returned without error (the response written, or found committed),
\* each exactly once unless an earlier afterError hook failed; after a failed
\* write or beforeError hook no afterError hook runs.
C6_HooksAtMostOnceInOrder ==
    Classified =>
        /\ \A i \in 1..beforeHooks : Cardinality(Calls("before", i)) <= 1
        /\ \A j \in 1..afterHooks : Cardinality(Calls("after", j)) <= 1
        /\ \A k \in ChainCalls("before") :
              /\ \A w \in ChainCalls("write") : k < w
              /\ \A a \in ChainCalls("after") : k < a
              /\ trace[k].id = k
        /\ \A k \in ChainCalls("after") :
              /\ hookErr = "nil"
              /\ ~Failed("before") /\ ~Failed("write")
              /\ \A i \in 1..beforeHooks : Calls("before", i) # {}
              /\ \A w \in ChainCalls("write") : w < k
              /\ resp.committed
              /\ \A j \in 1..(trace[k].id - 1) :
                    \E m \in Calls("after", j) : m < k /\ trace[m].result = "ok"
        /\ pc = "done" =>
              /\ \A i \in 1..beforeHooks :
                    Calls("before", i) # {} \/ Failed("before")
              /\ \A j \in 1..afterHooks :
                    \/ Calls("after", j) # {}
                    \/ Failed("before") \/ Failed("write") \/ Failed("after")

C6_Witness ==
    /\ pc = "done"
    /\ Classified
    /\ beforeHooks = 2
    /\ afterHooks = 2
    /\ trace = <<Call("before", 1, "fail")>>

\* C7: a pass entered with a non-nil error and an uncommitted response, whose
\* write did not fail, ends with the response committed as a structured error
\* response, whatever the beforeError hooks do.
C7_PassEndsWithErrorResponse ==
    (pc = "done" /\ Classified /\ ~Failed("write")) =>
        /\ resp.committed
        /\ resp.by = "handler" =>
              (resp.body.kind \in {"json", "empty"} /\ resp.status = apiErr[1].code)

\* C8: a failing hook never leads back into the classifier or to another pass;
\* the step in which a hook fails ends the pass and leaves the classified
\* error and the response as they are, with no further write.
C8_HookFailureEndsPass ==
    [][/\ passes' <= 1
       /\ HookFails =>
             /\ pc' = "done"
             /\ passes' = passes
             /\ apiErr' = apiErr
             /\ resp' = resp
             /\ WriteCount(trace') = WriteCount(trace)]_vars

C8_Witness ==
    /\ pc = "done"
    /\ passes = 1
    /\ trace = <<Call("write", 0, "ok"), Call("after", 1, "fail")>>
    /\ resp.by = "handler"
    /\ resp.status = 500

\* C9: an entry is added to the diagnostic log only in debug mode.
C9_LogOnlyInDebug ==
    [][Len(log') > Len(log) => debug]_vars

C9_Witness ==
    /\ ~debug
    /\ pc = "done"
    /\ passes = 1
    /\ err = <<OtherNode>>
    /\ Failed("before")
    /\ log = <<>>

----------------------------------------------------------------------------
(* Catch-all route *)

\* the request lies under the /api mount and matches no registered route
UnmatchedUnderMount ==
    /\ pc # "idle"
    /\ HasPrefix(req.path, ApiPrefix)
    /\ Len(req.path) > Len(ApiPrefix)
    /\ req.path \notin RegisteredRoutes

----------------------------------------------------------------------------
(* Classification priority and the afterError log *)

\* C16: an error whose chain carries an ApiError is classified to that ApiError,
\* code and message unchanged, whatever else the chain holds; otherwise an
\* error carrying a framework HTTP error is classified to that error's code,
\* even if the chain also holds sql.ErrNoRows.
C16_PriorityOrder ==
    Classified =>
        /\ (\E i \in 1..Len(err) : err[i].kind = "api") =>
              \E i \in 1..Len(err) :
                 /\ err[i].kind = "api"
                 /\ \A j \in 1..(i - 1) : err[j].kind # "api"
                 /\ apiErr[1].code = err[i].code
                 /\ apiErr[1].message = err[i].msg.text
                 /\ (apiErr[1].rawData # "nil") = err[i].raw
        /\ (/\ \A i \in 1..Len(err) : err[i].kind # "api"
            /\ \E i \in 1..Len(err) : err[i].kind = "http") =>
              \E i \in 1..Len(err) :
                 /\ err[i].kind = "http"
                 /\ \A j \in 1..(i - 1) : err[j].kind # "http"
                 /\ apiErr[1].code = err[i].code

C16_Witness ==
    /\ Classified
    /\ Len(err) = 2
    /\ err[1].kind = "http" /\ err[1].code = 500
    /\ err[2].kind = "api"
    /\ apiErr[1].code = 403
    /\ resp.by = "handler"
    /\ resp.status = 403

\* C17: when an afterError hook has returned an error, what the handler printed
\* to the diagnostic log for it is that afterError failure.
C17_AfterFailureIsLogged ==
    \A k \in DOMAIN log :
        (log[k].site = "hookErr" /\ Failed("after")) => log[k].value = "afterErr"

----------------------------------------------------------------------------
(* The event's Error field *)

Replaced == \E k \in ChainCalls("before") : trace[k].result = "replace"

\* C20: status and body of the written response come from the ApiError the
\* classifier produced, also when a beforeError hook assigned another ApiError
\* to event.Error; the event keeps the hook's assignment, so the afterError
\* hooks are handed the modified event.
C20_WriteUsesClassifiedError ==
    Classified =>
        /\ apiErr[1].code # HookApiError.code
        /\ (resp.by = "handler" /\ resp.body.kind # "partial") =>
              /\ resp.status = apiErr[1].code
              /\ req.method # "HEAD" =>
                    (resp.body.code = apiErr[1].code /\ resp.body.message = apiErr[1].message)
        /\ event[1].error = IF Replaced THEN HookApiError ELSE apiErr[1]

C20_Witness ==
    /\ pc = "done"
    /\ trace = <<Call("before", 1, "replace"), Call("write", 0, "ok"), Call("after", 1, "ok")>>
    /\ req.method = "GET"
    /\ resp.status = 403
    /\ resp.body.code = 403
    /\ event[1].error = HookApiError

----------------------------------------------------------------------------
(* The middleware pipeline *)

\* C13: the trailing-slash middleware changes the path exactly for URL paths
\* that start with "/api/" (it drops their one trailing separator); every
\* other path reaches the router unchanged.
C13_TrailingSlashOnlyUnderApi ==
    (\E i \in 1..Len(pipe.ran) : pipe.ran[i] = "RemoveTrailingSlash") =>
        LET u == pipe.url
            underApi == Len(u) >= 3 /\ u[1] = "/" /\ u[2] = "api" /\ u[3] = "/"
        IN /\ ~underApi => pipe.path = u
           /\ (underApi /\ u[Len(u)] = "/") => pipe.path = SubSeq(u, 1, Len(u) - 1)
           /\ (underApi /\ u[Len(u)] # "/") => pipe.path = u

C13_Witness ==
    /\ pipe.pc = "done"
    /\ pipe.outcome = "returned"
    /\ pipe.url = <<"/", "api", "/", "x", "/">>
    /\ pipe.path = <<"/", "api", "/", "x">>

\* C14: a panic raised at any stage of the pipeline is converted into an error
\* that enters the error classifier.
C14_EveryPanicRecovered ==
    (pipe.pc = "done" /\ pipe.outcome # "returned") =>
        (pipe.outcome = "error" /\ pipe.err # NilErr)

\* the order the claim gives to the stages
StageRank(st) ==
    CASE st = "RemoveTrailingSlash" -> 1
      [] st = "LoadAuthContext" -> 2
      [] st = "Router" -> 3
      [] st = "Recover" -> 4
      [] st = "Secure" -> 5
      [] OTHER -> 6

\* C19: the stages run in the order trailing-slash removal, auth-context
\* loading, route matching, panic recovery, security headers, then the group
\* and route middleware and the handler; auth-context loading has run before
\* any of these last, for every route.
C19_StageOrder ==
    /\ \A i, j \in 1..Len(pipe.ran) :
          (i < j /\ StageRank(pipe.ran[j]) < 6) => StageRank(pipe.ran[i]) < StageRank(pipe.ran[j])
    /\ \A j \in 1..Len(pipe.ran) :
          StageRank(pipe.ran[j]) = 6 =>
             /\ \E i \in 1..(j - 1) : pipe.ran[i] = "LoadAuthContext"
             /\ \A r \in 1..5 : \E i \in 1..(j - 1) : StageRank(pipe.ran[i]) = r
    /\ \A j \in 1..Len(pipe.ran) :
          pipe.ran[j] = "Handler" =>
             \E i \in 1..(j - 1) : pipe.ran[i] = "eagerRequestInfoCache"

C19_Witness ==
    /\ pipe.pc = "done"
    /\ pipe.route = "catchAll"
    /\ pipe.ran = <<"RemoveTrailingSlash", "LoadAuthContext", "Router", "Recover",
                    "Secure", "eagerRequestInfoCache", "ActivityLogger", "Handler">>

----------------------------------------------------------------------------
(* The static handler *)

\* the name a static request asks for, and what the filesystem holds there
StaticName == NameOf(PathUnescape(static.p).path)
StaticKind == IF ValidPath(StaticName) THEN Lookup(StaticName, static.fsys) ELSE "none"
StaticDecoded == \A i \in 1..Len(static.p) : static.p[i] # "%"
\* the regular file the request denotes: the name itself, or the index.html
\* of the directory it names
StaticTarget ==
    IF StaticKind = "dir" THEN JoinIndex(StaticName) ELSE StaticName
StaticTargetPresent ==
    StaticKind # "none" /\ Lookup(StaticTarget, static.fsys) = "file"
StaticOpenedIndex ==
    \E i \in 1..Len(static.opened) :
        static.opened[i][Len(static.opened[i])] = "index.html"

\* C11 (as stated): a request for a path present in the filesystem is served
\* that path and index.html is never opened.
C11_ExistingNeverOpensIndex ==
    (static.pc = "done" /\ StaticDecoded /\ StaticKind # "none") =>
        (static.resp = FileResponse /\ ~StaticOpenedIndex)

\* C11 (amended): a request whose regular file (the named file, or the
\* index.html of the named directory) is present is served that file with
\* status 200, and for a named regular file nothing else is opened; when it
\* is missing, index.html is served with status 200 if indexFallback is on
\* and index.html exists, and otherwise ErrNotFound is returned and the
\* error handler writes a 404 envelope.
C11_StaticOutcome ==
    (static.pc = "done" /\ StaticDecoded) =>
        IF StaticTargetPresent
        THEN /\ static.err = NilErr
             /\ static.resp = FileResponse
             /\ static.served = <<[name |-> StaticTarget, outside |-> FALSE]>>
             /\ StaticKind = "file" => static.opened = <<StaticName>>
        ELSE IF static.indexFallback /\ static.fsys.index
        THEN /\ static.err = NilErr
             /\ static.resp = FileResponse
             /\ static.served = <<[name |-> <<"index.html">>, outside |-> FALSE]>>
        ELSE /\ static.err = ErrNotFound
             /\ static.served = <<>>
             /\ static.resp.status = StatusNotFound
             /\ static.resp.body.kind = "json"
             /\ static.resp.body.code = StatusNotFound

C11_Witness ==
    /\ static.pc = "done"
    /\ static.p = <<"", "d", "a">>
    /\ static.indexFallback
    /\ static.fsys.index
    /\ static.fsys.d = "empty"
    /\ static.opened = <<<<"d", "a">>, <<"index.html">>>>
    /\ static.resp = FileResponse

\* C12: whatever the wildcard, escaped or with "." and ".." segments, no file
\* outside the filesystem root is served, and a name that points above the
\* root or is rooted yields nothing.
C12_NeverOutsideRoot ==
    /\ \A i \in 1..Len(static.served) : ~static.served[i].outside
    /\ (static.pc \in {"returned", "done"} /\ StaticDecoded
          /\ StaticName[1] \in {"", ".."}) =>
            \A i \in 1..Len(static.served) : static.served[i].name = <<"index.html">>

C12_Witness ==
    /\ static.pc = "done"
    /\ static.p = <<"a", "%2E%2E%2F..", "a">>
    /\ static.opened = <<<<"..", "a">>>>
    /\ ~static.indexFallback
    /\ static.resp.status = StatusNotFound

\* C18: when the wildcard cannot be percent-decoded the handler returns an
\* error that is not a not-found error, opens no file, writes nothing, and
\* has run once.
C18_DecodeFailureOpensNothing ==
    (static.pc = "returned" /\ ~StaticDecoded) =>
        /\ static.err # NilErr
        /\ ~ErrorsIsNotFound(static.err)
        /\ static.opened = <<>>
        /\ static.served = <<>>
        /\ static.resp = NoResponse
        /\ static.runs = 1

C18_Witness ==
    /\ static.pc = "returned"
    /\ static.p = <<"", "a", "%">>
    /\ static.indexFallback
    /\ static.fsys.index
    /\ static.fsys.a
    /\ static.opened = <<>>

----------------------------------------------------------------------------
(* Requests served at the same time *)

\* the hook calls of chain ch in a trace, in the order made
RECURSIVE IdsOf(_, _)
IdsOf(tr, ch) ==
    IF tr = <<>> THEN <<>>
    ELSE IF Head(tr).chain = ch THEN <<Head(tr).id>> \o IdsOf(Tail(tr), ch)
         ELSE IdsOf(Tail(tr), ch)

\* what request r would show had it been served alone
AsIfAlone(r) ==
    LET q == conc.reqs[r]
        out == StaticDirectoryHandler(q.p, ConcFS, q.indexFallback)
        b == IdsOf(q.trace, "before")
        a == IdsOf(q.trace, "after")
    IN /\ q.resp.by = "handler" => q.resp = WriteResponse(q.method, Classify(q.err))
       /\ (q.pc = "done" /\ q.err # NilErr /\ q.hookErr = "nil" /\ q.resp.by # "hook")
             => q.resp = WriteResponse(q.method, Classify(q.err))
       /\ q.kind = "static" =>
             /\ q.err = out.err
             /\ (q.resp = FileResponse) = (out.served # <<>>)
       /\ b = [i \in 1..Len(b) |-> i] /\ Len(b) <= beforeHooks
       /\ a = [i \in 1..Len(a) |-> i] /\ Len(a) <= afterHooks
       /\ (q.pc = "done" /\ q.err # NilErr /\ q.hookErr = "nil") =>
             /\ Len(b) = beforeHooks
             /\ \/ Len(a) = afterHooks
                \/ a # <<>> /\ q.trace[Len(q.trace)].result = "fail"

\* C15: however the passes and static invocations of two requests interleave,
\* each request's classified error, hook calls and written response are those
\* of that request served alone, and a step of one request leaves the other
\* request's context and the registered hooks as they were.
C15_RequestsIsolated ==
    /\ [](\A r \in Requests : AsIfAlone(r))
    /\ [][/\ \E r \in Requests : \A o \in Requests \ {r} : conc'.reqs[o] = conc.reqs[o]
          /\ beforeHooks' = beforeHooks
          /\ afterHooks' = afterHooks]_vars

C15_Witness ==
    /\ conc.reqs["r1"].pc = "after"
    /\ conc.reqs["r1"].resp.by = "handler"
    /\ conc.reqs["r1"].resp.status = 403
    /\ conc.reqs["r2"].pc = "before"
    /\ conc.reqs["r2"].err = <<OtherNode>>
    /\ conc.reqs["r2"].trace # <<>>

====
